---- MODULE Spec2Model ----
(***************************************************************************)
(* The chat route of dyglo/tafa-ai: the POST and DELETE handlers of the     *)
(* chat API (src/unnamed/part_000) over the chat store they call.           *)
(* Every await of a handler is one step of the request that runs it, so     *)
(* requests interleave at their awaits, as they do on the Node event loop.  *)
(***************************************************************************)
EXTENDS Integers, Sequences, FiniteSets, TLC

\* ------------------------------------------------------------------ bounds
MaxReqs == 2
NumChats == 1
MaxPriorMessages == 2
DailyRequestLimit == 1
MaxMessages == 2
MaxParts == 3
StepLimit == 5
PdfTextBudget == 12000

Reqs == 1..MaxReqs
\* the requests of the three-request specification: one more than Reqs
Slots == 1..(MaxReqs + 1)
ChatIds == 1..NumChats
Users == {"u1", "u2"}
NoSession == "none"
Undef == -1

\* ------------------------------------------------- program constants, tables
\* session.user.type of each user (auth, an external collaborator)
userTypeOf == [u \in Users |-> IF u = "u1" THEN "guest" ELSE "regular"]

\* entitlementsByUserType (lib/ai/entitlements), scaled to the model's bounds
entitlementsByUserType ==
    [guest |-> [maxMessagesPerDay |-> 1], regular |-> [maxMessagesPerDay |-> 2]]

\* chatModels, part_001 lines 9-20
chatModels == {"chat-model", "chat-model-reasoning"}

VisibilityTypes == {"private", "public"}

\* the tools record handed to streamText, part_000 lines 272-281
tools == {"getWeather", "createDocument", "updateDocument", "requestSuggestions", "webSearch"}
NoTool == "none"

\* mutant: the active tool list is passed whatever the model is
ActiveTools_Unconditional(selectedChatModel) ==
    {"getWeather", "updateDocument", "requestSuggestions", "webSearch"}

\* experimental_activeTools, part_000 lines 262-270
ActiveTools(selectedChatModel) ==
    IF selectedChatModel = "chat-model-reasoning"
    THEN {}
    ELSE {"getWeather", "updateDocument", "requestSuggestions", "webSearch"}

\* ------------------------------------------------------------------- state
VARIABLES
    chats,          \* chat id -> chat record or NoChat
    messages,       \* the Message table: a set of [id, chatId, role]
    streamIds,      \* the Stream table: a set of [streamId, chatId]
    usageLog,       \* the usage_log table: rows in insertion (serial id) order
    pc,             \* where each request is in its handler
    method,         \* "POST" | "DELETE" | "none"
    body,           \* the parsed request body (POST) or the id parameter (DELETE)
    session,        \* the user auth() returned, or NoSession
    messageCount,   \* local messageCount of POST
    usageCount,     \* local usageCount of POST
    chat,           \* local chat of POST / DELETE
    usageData,      \* local usageData of POST
    consumed,       \* what awaiting consumePromise gave onFinish
    produced,       \* the messages the stream produced for onFinish
    steps,          \* steps streamText has run
    toolCall,       \* the tool the model is invoking in the current step, or NoTool
    activeTools,    \* experimental_activeTools of the turn's streamText call
    response,       \* what the handler returned
    log,            \* the calls the handler has made, in order
    clientConnected,\* whether the client of each request still reads its response
    streamError,    \* the error raised inside the stream of the turn, or NoError
    errorText,      \* the error text the stream carried to the client
    uiMessages,     \* the argument of a buildModelMessages call
    buildResult     \* what that call gave: pending, returned modelMessages, thrown

store == <<chats, messages, streamIds, usageLog>>
counts == <<messageCount, usageCount>>
turnVars == <<usageData, consumed, produced, steps, toolCall, activeTools>>
vars == <<chats, messages, streamIds, usageLog, pc, method, body, session,
          messageCount, usageCount, chat, usageData, consumed, produced,
          steps, toolCall, activeTools, response, log,
          clientConnected, streamError, errorText, uiMessages, buildResult>>
errorVars == <<streamError, errorText>>
buildVars == <<uiMessages, buildResult>>

NoChat == [userId |-> "none", title |-> 0, visibility |-> "none"]
NoBody == [id |-> 0, selectedChatModel |-> "none", selectedVisibilityType |-> "none"]
ZeroUsage == [promptTokens |-> 0, completionTokens |-> 0, totalTokens |-> 0]
NotBuilt == [state |-> "pending", modelMessages |-> <<>>]

\* the errors that can be raised inside the stream of a turn, by their message
InternalErrors == {"provider: 401 invalid api key", "Search API error: 500"}
NoError == "none"
\* an error text is the sequence of the pieces it is made of
NoErrorText == <<>>

\* mutant: the error text carries the message of the error
onError_WithCause(error) == <<"Oops, an error occurred!", error>>

\* onError: () => { return 'Oops, an error occurred!'; }, part_000 378-380
onError(error) == <<"Oops, an error occurred!">>

\* ------------------------------------------------------------- responses
NoResponse == [kind |-> "pending", status |-> 0, body |-> ""]

\* new ChatSDKError(code).toResponse() (lib/errors)
ChatSDKErrorResponse(code) ==
    [kind |-> "ChatSDKError",
     status |-> CASE code = "bad_request:api" -> 400
                  [] code = "unauthorized:chat" -> 401
                  [] code = "forbidden:chat" -> 403
                  [] code = "rate_limit:chat" -> 429
                  [] OTHER -> 400,
     body |-> code]

\* new Response(JSON.stringify({ message: ... }), { status: 429 }), part_000 188-191
QuotaExceededResponse ==
    [kind |-> "json", status |-> 429, body |-> "{message: Daily request limit exceeded.}"]

StreamResponse == [kind |-> "stream", status |-> 200, body |-> "sse"]
DeletedResponse == [kind |-> "json", status |-> 200, body |-> "deletedChat"]
\* the handler resolved without returning a Response
UndefinedResponse == [kind |-> "undefined", status |-> 0, body |-> ""]
\* the handler rejected: the error left the handler
ThrownResponse == [kind |-> "thrown", status |-> 0, body |-> ""]

\* catch (error) { if (error instanceof ChatSDKError) return error.toResponse(); }
CatchResponse(error) ==
    IF error = "ChatSDKError"
    THEN ChatSDKErrorResponse("bad_request:database")
    ELSE UndefinedResponse

\* ------------------------------------------------------ the store's queries
\* getMessageCountByUserId: the user's user-role messages of the window
MessageCountByUserId(u) ==
    Cardinality({m \in messages : /\ m.role = "user"
                                  /\ chats[m.chatId].userId = u})

\* getUsageCountByUserId: the user's usage_log rows of the window
UsageCountByUserId(u) ==
    Cardinality({i \in 1..Len(usageLog) : usageLog[i].userId = u})

UsageRow(u, model, data, turn) ==
    [userId |-> u, model |-> model, requestType |-> "chat",
     promptTokens |-> data.promptTokens,
     completionTokens |-> data.completionTokens,
     totalTokens |-> data.totalTokens,
     turn |-> turn]

UserMessage(r, id) == [id |-> r, chatId |-> id, role |-> "user"]
AssistantMessage(r, id) == [id |-> r, chatId |-> id, role |-> "assistant"]

\* ---------------------------------------------------------------- guards
\* if (messageCount > entitlementsByUserType[userType].maxMessagesPerDay)
OverMessageCeiling(count, userType) ==
    count > entitlementsByUserType[userType].maxMessagesPerDay

\* mutant: the daily limit is compared with > instead of >=
OverDailyLimit_Strict(count) == count > DailyRequestLimit

\* const dailyLimit = Number(process.env.DAILY_REQUEST_LIMIT ?? '100');
\* if (usageCount >= dailyLimit)
OverDailyLimit(count) == count >= DailyRequestLimit

\* if (chat.userId !== session.user.id)
NotOwner(c, u) == c.userId # u

Finish(r, resp) ==
    /\ response' = [response EXCEPT ![r] = resp]
    /\ pc' = [pc EXCEPT ![r] = "done"]

Logged(r, event) == log' = [log EXCEPT ![r] = Append(@, event)]

\* ------------------------------------------------- the usage summary
\* A usage object of the provider: a field is a count or Undef (not there).
NoUsage ==
    [present |-> FALSE,
     inputTokens |-> Undef, promptTokens |-> Undef, prompt_tokens |-> Undef,
     outputTokens |-> Undef, completionTokens |-> Undef, completion_tokens |-> Undef,
     totalTokens |-> Undef, total_tokens |-> Undef]
EmptyUsage == [NoUsage EXCEPT !.present = TRUE]
CurrentUsage ==
    [EmptyUsage EXCEPT !.inputTokens = 3, !.outputTokens = 2, !.totalTokens = 5]
LegacyUsage ==
    [EmptyUsage EXCEPT !.prompt_tokens = 1, !.completion_tokens = 1, !.total_tokens = 2]

ConsumeResult(state, usage, dataUsage, metadataUsage) ==
    [state |-> state, usage |-> usage, dataUsage |-> dataUsage,
     metadataUsage |-> metadataUsage]
NotConsumed == ConsumeResult("pending", NoUsage, NoUsage, NoUsage)

\* What consumePromise can be when onFinish reads it: null (consumeStream threw,
\* line 308), rejected, or resolved with a result of some shape.
ConsumeResults ==
    { ConsumeResult("null", NoUsage, NoUsage, NoUsage),
      ConsumeResult("rejected", NoUsage, NoUsage, NoUsage),
      ConsumeResult("resolved", NoUsage, NoUsage, NoUsage),
      ConsumeResult("resolved", NoUsage, LegacyUsage, NoUsage) }

\* a ?? b ?? c ?? 0
Coalesce(a, b, c) ==
    IF a # Undef THEN a ELSE IF b # Undef THEN b ELSE IF c # Undef THEN c ELSE 0

\* lines 297-301 and 351-355
UsageDataFrom(usage) ==
    [promptTokens |-> Coalesce(usage.inputTokens, usage.promptTokens, usage.prompt_tokens),
     completionTokens |->
        Coalesce(usage.outputTokens, usage.completionTokens, usage.completion_tokens),
     totalTokens |-> Coalesce(usage.totalTokens, usage.total_tokens, Undef)]

\* lines 293-306: the then/catch chained on consumePromise
ThenCapture(data, res) ==
    IF res.state = "resolved" /\ res.usage.present
    THEN UsageDataFrom(res.usage)
    ELSE data

\* lines 344-348: res?.usage || res?.data?.usage || res?.metadata?.usage || null
ExtractUsage(res) ==
    IF res.usage.present THEN res.usage
    ELSE IF res.dataUsage.present THEN res.dataUsage
    ELSE IF res.metadataUsage.present THEN res.metadataUsage
    ELSE NoUsage

\* lines 332-360: usageData after onFinish has awaited consumePromise
AwaitCapture(data, res) ==
    IF res.state = "resolved" /\ ExtractUsage(res).present
    THEN UsageDataFrom(ExtractUsage(res))
    ELSE data

\* -------------------------------------------------------------------- Init
\* The store as earlier requests of the last 24 hours left it: each chat id is
\* free or holds a chat of some user with up to MaxPriorMessages user messages,
\* and u1 has up to DailyRequestLimit usage rows.  No request is running.
PriorMessages(c, k) == {[id |-> -i, chatId |-> c, role |-> "user"] : i \in 1..k}

PriorUsage(u, n) == [i \in 1..n |-> UsageRow(u, "chat-model", ZeroUsage, 0)]

Init ==
    /\ \E owner \in [ChatIds -> Users \cup {"none"}] :
       \E k \in [ChatIds -> 0..MaxPriorMessages] :
          /\ \A c \in ChatIds : owner[c] = "none" => k[c] = 0
          /\ chats = [c \in ChatIds |->
                        IF owner[c] = "none" THEN NoChat
                        ELSE [userId |-> owner[c], title |-> 0, visibility |-> "private"]]
          /\ messages = UNION {PriorMessages(c, k[c]) : c \in ChatIds}
    /\ streamIds = {}
    /\ \E n1 \in 0..DailyRequestLimit : usageLog = PriorUsage("u1", n1)
    /\ pc = [r \in Slots |-> "idle"]
    /\ method = [r \in Slots |-> "none"]
    /\ body = [r \in Slots |-> NoBody]
    /\ session = [r \in Slots |-> NoSession]
    /\ messageCount = [r \in Slots |-> 0]
    /\ usageCount = [r \in Slots |-> 0]
    /\ chat = [r \in Slots |-> NoChat]
    /\ usageData = [r \in Slots |-> ZeroUsage]
    /\ consumed = [r \in Slots |-> NotConsumed]
    /\ produced = [r \in Slots |-> 0]
    /\ steps = [r \in Slots |-> 0]
    /\ toolCall = [r \in Slots |-> NoTool]
    /\ activeTools = [r \in Slots |-> {}]
    /\ response = [r \in Slots |-> NoResponse]
    /\ log = [r \in Slots |-> <<>>]
    /\ clientConnected = [r \in Slots |-> TRUE]
    /\ streamError = [r \in Slots |-> NoError]
    /\ errorText = [r \in Slots |-> NoErrorText]
    /\ uiMessages = <<>>
    /\ buildResult = NotBuilt


\* ------------------------------------------------------------------- POST
\* mutant: the catch of the parse does not return, the handler goes on
PostParse_FallThrough(r) ==
    /\ pc[r] = "idle"
    /\ \A q \in Reqs : q < r => pc[q] # "idle"
    /\ method' = [method EXCEPT ![r] = "POST"]
    /\ \/ UNCHANGED body
       \/ \E id \in ChatIds : body' = [body EXCEPT ![r].id = id]
    /\ pc' = [pc EXCEPT ![r] = "auth"]
    /\ UNCHANGED <<store, session, counts, chat, turnVars, response, log>>
    /\ UNCHANGED <<clientConnected, errorVars, buildVars>>

\* A request arrives (requests are numbered in the order they arrive) and
\* lines 137-142 run: request.json() and postRequestBodySchema.parse.  The
\* body is immutable; selectedChatModel and selectedVisibilityType are drawn
\* where the handler first reads them (lines 205 and 258).
PostParse(r) ==
    /\ pc[r] = "idle"
    /\ \A q \in Reqs : q < r => pc[q] # "idle"
    /\ method' = [method EXCEPT ![r] = "POST"]
    /\ \/ /\ Finish(r, ChatSDKErrorResponse("bad_request:api"))
          /\ UNCHANGED body
       \/ /\ \E id \in ChatIds : body' = [body EXCEPT ![r].id = id]
          /\ pc' = [pc EXCEPT ![r] = "auth"]
          /\ UNCHANGED response
    /\ UNCHANGED <<store, session, counts, chat, turnVars, log>>
    /\ UNCHANGED <<clientConnected, errorVars, buildVars>>

\* lines 157-161: const session = await auth()
PostAuth(r) ==
    /\ pc[r] = "auth"
    /\ Logged(r, "auth")
    /\ \/ /\ Finish(r, ChatSDKErrorResponse("unauthorized:chat"))
          /\ UNCHANGED session
       \/ /\ \E u \in Users : session' = [session EXCEPT ![r] = u]
          /\ pc' = [pc EXCEPT ![r] = "messageCount"]
          /\ UNCHANGED response
    /\ UNCHANGED <<store, method, body, counts, chat, turnVars>>
    /\ UNCHANGED <<clientConnected, errorVars, buildVars>>

\* lines 165-172: the message-count check
PostMessageCount(r) ==
    /\ pc[r] = "messageCount"
    /\ Logged(r, "getMessageCountByUserId")
    /\ \/ /\ Finish(r, CatchResponse("ChatSDKError"))
          /\ UNCHANGED messageCount
       \/ LET count == MessageCountByUserId(session[r]) IN
          /\ messageCount' = [messageCount EXCEPT ![r] = count]
          /\ IF OverMessageCeiling(count, userTypeOf[session[r]])
             THEN Finish(r, ChatSDKErrorResponse("rate_limit:chat"))
             ELSE /\ pc' = [pc EXCEPT ![r] = "usageCount"]
                  /\ UNCHANGED response
    /\ UNCHANGED <<store, method, body, session, usageCount, chat, turnVars>>
    /\ UNCHANGED <<clientConnected, errorVars, buildVars>>

\* mutant: the usage-count query is not in a try/catch, so its failure reaches
\* the catch of POST
PostUsageCount_Fatal(r) ==
    /\ pc[r] = "usageCount"
    /\ Logged(r, "getUsageCountByUserId")
    /\ \/ /\ Finish(r, CatchResponse("ChatSDKError"))
          /\ UNCHANGED usageCount
       \/ LET count == UsageCountByUserId(session[r]) IN
          /\ usageCount' = [usageCount EXCEPT ![r] = count]
          /\ IF OverDailyLimit(count)
             THEN Finish(r, QuotaExceededResponse)
             ELSE /\ pc' = [pc EXCEPT ![r] = "getChat"]
                  /\ UNCHANGED response
    /\ UNCHANGED <<store, method, body, session, messageCount, chat, turnVars>>
    /\ UNCHANGED <<clientConnected, errorVars, buildVars>>

\* lines 174-192: the usage-count check; a failed query leaves usageCount 0
PostUsageCount(r) ==
    /\ pc[r] = "usageCount"
    /\ \E ok \in BOOLEAN :
        LET count == IF ok THEN UsageCountByUserId(session[r]) ELSE 0 IN
        /\ Logged(r, "getUsageCountByUserId")
        /\ usageCount' = [usageCount EXCEPT ![r] = count]
        /\ IF OverDailyLimit(count)
           THEN Finish(r, QuotaExceededResponse)
           ELSE /\ pc' = [pc EXCEPT ![r] = "getChat"]
                /\ UNCHANGED response
    /\ UNCHANGED <<store, method, body, session, messageCount, chat, turnVars>>
    /\ UNCHANGED <<clientConnected, errorVars, buildVars>>

\* mutant: the else branch with the ownership check is missing
PostGetChat_NoOwnerCheck(r) ==
    /\ pc[r] = "getChat"
    /\ Logged(r, "getChatById")
    /\ \/ /\ Finish(r, CatchResponse("ChatSDKError"))
          /\ UNCHANGED chat
       \/ LET c == chats[body[r].id] IN
          /\ chat' = [chat EXCEPT ![r] = c]
          /\ pc' = [pc EXCEPT ![r] = IF c = NoChat THEN "generateTitle" ELSE "getMessages"]
          /\ UNCHANGED response
    /\ UNCHANGED <<store, method, body, session, counts, turnVars>>
    /\ UNCHANGED <<clientConnected, errorVars, buildVars>>

\* lines 194-211: const chat = await getChatById({ id }) and the branch on it
PostGetChat(r) ==
    /\ pc[r] = "getChat"
    /\ Logged(r, "getChatById")
    /\ \/ /\ Finish(r, CatchResponse("ChatSDKError"))
          /\ UNCHANGED chat
       \/ LET c == chats[body[r].id] IN
          /\ chat' = [chat EXCEPT ![r] = c]
          /\ IF c = NoChat
             THEN /\ pc' = [pc EXCEPT ![r] = "generateTitle"]
                  /\ UNCHANGED response
             ELSE IF NotOwner(c, session[r])
                  THEN Finish(r, ChatSDKErrorResponse("forbidden:chat"))
                  ELSE /\ pc' = [pc EXCEPT ![r] = "getMessages"]
                       /\ UNCHANGED response
    /\ UNCHANGED <<store, method, body, session, counts, turnVars>>
    /\ UNCHANGED <<clientConnected, errorVars, buildVars>>

\* lines 197-199: the title is one model call; its failure is the provider's
\* error, which is no ChatSDKError
PostGenerateTitle(r) ==
    /\ pc[r] = "generateTitle"
    /\ Logged(r, "generateTitleFromUserMessage")
    /\ \/ Finish(r, CatchResponse("Error"))
       \/ /\ pc' = [pc EXCEPT ![r] = "saveChat"]
          /\ UNCHANGED response
    /\ UNCHANGED <<store, method, body, session, counts, chat, turnVars>>
    /\ UNCHANGED <<clientConnected, errorVars, buildVars>>

\* saveChat (Chat Store Adapter, "create chat"): an insert, which the store
\* takes only for an id that has no record
SaveChatInserts(id) == chats[id] = NoChat

\* mutant: the owner of the new record is not taken from the session
PostSaveChat_AnyOwner(r) ==
    /\ pc[r] = "saveChat"
    /\ Logged(r, "saveChat")
    /\ \E v \in VisibilityTypes :
        /\ body' = [body EXCEPT ![r].selectedVisibilityType = v]
        /\ \/ /\ Finish(r, CatchResponse("ChatSDKError"))
              /\ UNCHANGED chats
           \/ /\ SaveChatInserts(body[r].id)
              /\ \E u \in Users :
                   chats' = [chats EXCEPT ![body[r].id] =
                               [userId |-> u, title |-> r, visibility |-> v]]
              /\ pc' = [pc EXCEPT ![r] = "getMessages"]
              /\ UNCHANGED response
    /\ UNCHANGED <<messages, streamIds, usageLog, method, session, counts, chat, turnVars>>
    /\ UNCHANGED <<clientConnected, errorVars, buildVars>>

\* lines 201-206: await saveChat({ id, userId, title, visibility }); the
\* insert fails on a store failure and on an id that is already there
PostSaveChat(r) ==
    /\ pc[r] = "saveChat"
    /\ Logged(r, "saveChat")
    /\ \E v \in VisibilityTypes :
        /\ body' = [body EXCEPT ![r].selectedVisibilityType = v]
        /\ \/ /\ Finish(r, CatchResponse("ChatSDKError"))
              /\ UNCHANGED chats
           \/ /\ SaveChatInserts(body[r].id)
              /\ chats' = [chats EXCEPT ![body[r].id] =
                             [userId |-> session[r], title |-> r, visibility |-> v]]
              /\ pc' = [pc EXCEPT ![r] = "getMessages"]
              /\ UNCHANGED response
    /\ UNCHANGED <<messages, streamIds, usageLog, method, session, counts, chat, turnVars>>
    /\ UNCHANGED <<clientConnected, errorVars, buildVars>>

\* lines 213-226: getMessagesByChatId, buildModelMessages, geolocation
PostGetMessages(r) ==
    /\ pc[r] = "getMessages"
    /\ Logged(r, "getMessagesByChatId")
    /\ \/ Finish(r, CatchResponse("ChatSDKError"))
       \/ /\ pc' = [pc EXCEPT ![r] = "saveMessages"]
          /\ UNCHANGED response
    /\ UNCHANGED <<store, method, body, session, counts, chat, turnVars>>
    /\ UNCHANGED <<clientConnected, errorVars, buildVars>>

\* mutant: the user message is saved only after the stream, not here
PostSaveMessages_Deferred(r) ==
    /\ pc[r] = "saveMessages"
    /\ pc' = [pc EXCEPT ![r] = "createStreamId"]
    /\ UNCHANGED <<store, method, body, session, counts, chat, turnVars, response, log>>
    /\ UNCHANGED <<clientConnected, errorVars, buildVars>>

\* mutant: a failed save of the user message is caught and the turn goes on
PostSaveMessages_Swallowed(r) ==
    /\ pc[r] = "saveMessages"
    /\ Logged(r, "saveMessages:user")
    /\ \/ UNCHANGED messages
       \/ messages' = messages \cup {UserMessage(r, body[r].id)}
    /\ pc' = [pc EXCEPT ![r] = "createStreamId"]
    /\ UNCHANGED <<chats, streamIds, usageLog, method, body, session, counts, chat,
                   turnVars, response>>
    /\ UNCHANGED <<clientConnected, errorVars, buildVars>>

\* mutant: the message count is read again and checked where the message is
\* saved
PostSaveMessages_Rechecks(r) ==
    /\ pc[r] = "saveMessages"
    /\ Logged(r, "saveMessages:user")
    /\ \/ /\ Finish(r, CatchResponse("ChatSDKError"))
          /\ UNCHANGED messages
       \/ /\ OverMessageCeiling(MessageCountByUserId(session[r]), userTypeOf[session[r]])
          /\ Finish(r, ChatSDKErrorResponse("rate_limit:chat"))
          /\ UNCHANGED messages
       \/ /\ ~OverMessageCeiling(MessageCountByUserId(session[r]), userTypeOf[session[r]])
          /\ messages' = messages \cup {UserMessage(r, body[r].id)}
          /\ pc' = [pc EXCEPT ![r] = "createStreamId"]
          /\ UNCHANGED response
    /\ UNCHANGED <<chats, streamIds, usageLog, method, body, session, counts, chat, turnVars>>
    /\ UNCHANGED <<clientConnected, errorVars, buildVars>>

\* lines 228-239: await saveMessages({ messages: [the user message] })
PostSaveMessages(r) ==
    /\ pc[r] = "saveMessages"
    /\ Logged(r, "saveMessages:user")
    /\ \/ /\ Finish(r, CatchResponse("ChatSDKError"))
          /\ UNCHANGED messages
       \/ /\ messages' = messages \cup {UserMessage(r, body[r].id)}
          /\ pc' = [pc EXCEPT ![r] = "createStreamId"]
          /\ UNCHANGED response
    /\ UNCHANGED <<chats, streamIds, usageLog, method, body, session, counts, chat, turnVars>>
    /\ UNCHANGED <<clientConnected, errorVars, buildVars>>

\* lines 241-242: await createStreamId({ streamId, chatId: id })
PostCreateStreamId(r) ==
    /\ pc[r] = "createStreamId"
    /\ Logged(r, "createStreamId")
    /\ \/ /\ Finish(r, CatchResponse("ChatSDKError"))
          /\ UNCHANGED streamIds
       \/ /\ streamIds' = streamIds \cup {[streamId |-> r, chatId |-> body[r].id]}
          /\ pc' = [pc EXCEPT ![r] = "createUIMessageStream"]
          /\ UNCHANGED response
    /\ UNCHANGED <<chats, messages, usageLog, method, body, session, counts, chat, turnVars>>
    /\ UNCHANGED <<clientConnected, errorVars, buildVars>>

\* lines 244-286 and 383-393: createUIMessageStream runs execute, which calls
\* streamText; the handler returns the stream as its Response
PostCreateUIMessageStream(r) ==
    /\ pc[r] = "createUIMessageStream"
    /\ Logged(r, "streamText")
    /\ \E m \in chatModels :
        /\ body' = [body EXCEPT ![r].selectedChatModel = m]
        /\ activeTools' = [activeTools EXCEPT ![r] = ActiveTools(m)]
    /\ response' = [response EXCEPT ![r] = StreamResponse]
    /\ pc' = [pc EXCEPT ![r] = "streaming"]
    /\ UNCHANGED <<store, method, session, counts, chat,
                   usageData, consumed, produced, steps, toolCall>>
    /\ UNCHANGED <<clientConnected, errorVars, buildVars>>

\* mutant: each step saves the message it has produced so far
StreamToolStep_SavesAsItGoes(r) ==
    /\ pc[r] = "streaming"
    /\ steps[r] < StepLimit
    /\ \E t \in activeTools[r] : toolCall' = [toolCall EXCEPT ![r] = t]
    /\ steps' = [steps EXCEPT ![r] = @ + 1]
    /\ messages' = messages \cup {AssistantMessage(r, body[r].id)}
    /\ UNCHANGED <<chats, streamIds, usageLog, pc, method, body, session, counts, chat,
                   usageData, consumed, produced, activeTools, response, log>>
    /\ UNCHANGED <<clientConnected, errorVars, buildVars>>

\* ------------------------------------------------------------- the stream
\* One step of streamText in which the model invokes a tool; the tool runs and
\* its result is fed to the next step.  stopWhen: stepCountIs(5), and only the
\* active tools can be invoked.
StreamToolStep(r) ==
    /\ pc[r] = "streaming"
    /\ steps[r] < StepLimit
    /\ \E t \in activeTools[r] : toolCall' = [toolCall EXCEPT ![r] = t]
    /\ steps' = [steps EXCEPT ![r] = @ + 1]
    /\ UNCHANGED <<store, pc, method, body, session, counts, chat,
                   usageData, consumed, produced, activeTools, response, log>>
    /\ UNCHANGED <<clientConnected, errorVars, buildVars>>

\* The stream ends (a step without a tool call, or the step budget is spent):
\* the UI message stream hands the response message to onFinish.
StreamFinish(r) ==
    /\ pc[r] = "streaming"
    /\ produced' = [produced EXCEPT ![r] = 1]
    /\ toolCall' = [toolCall EXCEPT ![r] = NoTool]
    /\ steps' = [steps EXCEPT ![r] = 0]
    /\ pc' = [pc EXCEPT ![r] = "onFinish"]
    /\ UNCHANGED <<store, method, body, session, counts, chat,
                   usageData, consumed, activeTools, response, log>>
    /\ UNCHANGED <<clientConnected, errorVars, buildVars>>

\* The completion call fails: the stream carries the error event (onError,
\* line 378) and ends with nothing produced.
StreamError(r) ==
    /\ pc[r] = "streaming"
    /\ toolCall' = [toolCall EXCEPT ![r] = NoTool]
    /\ steps' = [steps EXCEPT ![r] = 0]
    /\ pc' = [pc EXCEPT ![r] = "onFinish"]
    /\ Logged(r, "onError")
    /\ \E error \in InternalErrors :
         /\ streamError' = [streamError EXCEPT ![r] = error]
         /\ errorText' = [errorText EXCEPT ![r] = onError(error)]
    /\ UNCHANGED <<store, method, body, session, counts, chat,
                   usageData, consumed, produced, activeTools, response>>
    /\ UNCHANGED <<clientConnected, buildVars>>

\* lines 319-329: onFinish saves the messages of the turn in one batch; a
\* failed save rejects onFinish
OnFinishSaveMessages(r) ==
    /\ pc[r] = "onFinish"
    /\ Logged(r, "saveMessages:assistant")
    /\ \/ /\ pc' = [pc EXCEPT ![r] = "done"]
          /\ UNCHANGED messages
       \/ /\ messages' = messages \cup
                {AssistantMessage(r, body[r].id) : i \in 1..produced[r]}
          /\ pc' = [pc EXCEPT ![r] = "awaitConsume"]
    /\ UNCHANGED <<chats, streamIds, usageLog, method, body, session, counts, chat,
                   turnVars, response>>
    /\ UNCHANGED <<clientConnected, errorVars, buildVars>>

\* mutant: saveUsageLog is not in a try/catch, so a failed write rejects
\* onFinish and the stream ends with the error event
OnFinishSaveUsageLog_Rethrown(r) ==
    /\ pc[r] = "awaitConsume"
    /\ \E res \in ConsumeResults :
        LET data == AwaitCapture(ThenCapture(usageData[r], res), res) IN
        /\ consumed' = [consumed EXCEPT ![r] = res]
        /\ usageData' = [usageData EXCEPT ![r] = data]
        /\ \/ /\ log' = [log EXCEPT ![r] = @ \o <<"saveUsageLog:failed", "onError">>]
              /\ UNCHANGED usageLog
           \/ /\ Logged(r, "saveUsageLog")
              /\ usageLog' = Append(usageLog,
                    UsageRow(session[r], body[r].selectedChatModel, data, r))
    /\ pc' = [pc EXCEPT ![r] = "done"]
    /\ UNCHANGED <<chats, messages, streamIds, method, body, session, counts, chat,
                   produced, steps, toolCall, activeTools, response>>
    /\ UNCHANGED <<clientConnected, errorVars, buildVars>>

\* mutant: the await of consumePromise is not in a try/catch, so a rejected
\* consumption rejects onFinish before saveUsageLog is called
OnFinishSaveUsageLog_Uncaught(r) ==
    /\ pc[r] = "awaitConsume"
    /\ \E res \in ConsumeResults :
        LET data == AwaitCapture(ThenCapture(usageData[r], res), res) IN
        /\ consumed' = [consumed EXCEPT ![r] = res]
        /\ usageData' = [usageData EXCEPT ![r] = data]
        /\ IF res.state = "rejected"
           THEN UNCHANGED <<usageLog, log>>
           ELSE \/ /\ Logged(r, "saveUsageLog:failed")
                   /\ UNCHANGED usageLog
                \/ /\ Logged(r, "saveUsageLog")
                   /\ usageLog' = Append(usageLog,
                         UsageRow(session[r], body[r].selectedChatModel, data, r))
    /\ pc' = [pc EXCEPT ![r] = "done"]
    /\ UNCHANGED <<chats, messages, streamIds, method, body, session, counts, chat,
                   produced, steps, toolCall, activeTools, response>>
    /\ UNCHANGED <<clientConnected, errorVars, buildVars>>

\* lines 331-376: await consumePromise, read the usage from the result, then
\* await saveUsageLog(...) in its own try/catch, which swallows a failed write
OnFinishSaveUsageLog(r) ==
    /\ pc[r] = "awaitConsume"
    /\ \E res \in ConsumeResults :
        LET data == AwaitCapture(ThenCapture(usageData[r], res), res) IN
        /\ consumed' = [consumed EXCEPT ![r] = res]
        /\ usageData' = [usageData EXCEPT ![r] = data]
        /\ \/ /\ Logged(r, "saveUsageLog:failed")
              /\ UNCHANGED usageLog
           \/ /\ Logged(r, "saveUsageLog")
              /\ usageLog' = Append(usageLog,
                    UsageRow(session[r], body[r].selectedChatModel, data, r))
    /\ pc' = [pc EXCEPT ![r] = "done"]
    /\ UNCHANGED <<chats, messages, streamIds, method, body, session, counts, chat,
                   produced, steps, toolCall, activeTools, response>>
    /\ UNCHANGED <<clientConnected, errorVars, buildVars>>

\* ----------------------------------------------------------------- DELETE
\* lines 402-407: a DELETE arrives; its id parameter is there or not
DeleteParams(r) ==
    /\ pc[r] = "idle"
    /\ \A q \in Reqs : q < r => pc[q] # "idle"
    /\ method' = [method EXCEPT ![r] = "DELETE"]
    /\ \/ /\ Finish(r, ChatSDKErrorResponse("bad_request:api"))
          /\ UNCHANGED body
       \/ /\ \E id \in ChatIds : body' = [body EXCEPT ![r].id = id]
          /\ pc' = [pc EXCEPT ![r] = "deleteAuth"]
          /\ UNCHANGED response
    /\ UNCHANGED <<store, session, counts, chat, turnVars, log>>
    /\ UNCHANGED <<clientConnected, errorVars, buildVars>>

\* lines 409-413
DeleteAuth(r) ==
    /\ pc[r] = "deleteAuth"
    /\ Logged(r, "auth")
    /\ \/ /\ Finish(r, ChatSDKErrorResponse("unauthorized:chat"))
          /\ UNCHANGED session
       \/ /\ \E u \in Users : session' = [session EXCEPT ![r] = u]
          /\ pc' = [pc EXCEPT ![r] = "deleteGetChat"]
          /\ UNCHANGED response
    /\ UNCHANGED <<store, method, body, counts, chat, turnVars>>
    /\ UNCHANGED <<clientConnected, errorVars, buildVars>>

\* mutant: DELETE does not compare the owner of the chat with the caller
DeleteGetChat_NoOwnerCheck(r) ==
    /\ pc[r] = "deleteGetChat"
    /\ Logged(r, "getChatById")
    /\ \/ /\ Finish(r, ThrownResponse)
          /\ UNCHANGED chat
       \/ LET c == chats[body[r].id] IN
          /\ chat' = [chat EXCEPT ![r] = c]
          /\ IF c = NoChat
             THEN Finish(r, ThrownResponse)
             ELSE /\ pc' = [pc EXCEPT ![r] = "deleteChatById"]
                  /\ UNCHANGED response
    /\ UNCHANGED <<store, method, body, session, counts, turnVars>>
    /\ UNCHANGED <<clientConnected, errorVars, buildVars>>

\* lines 415-419: getChatById and the ownership check; reading userId of a
\* chat that is not there throws, and DELETE has no try/catch
DeleteGetChat(r) ==
    /\ pc[r] = "deleteGetChat"
    /\ Logged(r, "getChatById")
    /\ \/ /\ Finish(r, ThrownResponse)
          /\ UNCHANGED chat
       \/ LET c == chats[body[r].id] IN
          /\ chat' = [chat EXCEPT ![r] = c]
          /\ IF c = NoChat
             THEN Finish(r, ThrownResponse)
             ELSE IF NotOwner(c, session[r])
                  THEN Finish(r, ChatSDKErrorResponse("forbidden:chat"))
                  ELSE /\ pc' = [pc EXCEPT ![r] = "deleteChatById"]
                       /\ UNCHANGED response
    /\ UNCHANGED <<store, method, body, session, counts, turnVars>>
    /\ UNCHANGED <<clientConnected, errorVars, buildVars>>

\* lines 421-423: const deletedChat = await deleteChatById({ id })
DeleteChatById(r) ==
    /\ pc[r] = "deleteChatById"
    /\ Logged(r, "deleteChatById")
    /\ \/ /\ Finish(r, ThrownResponse)
          /\ UNCHANGED chats
       \/ /\ chats' = [chats EXCEPT ![body[r].id] = NoChat]
          /\ Finish(r, DeletedResponse)
    /\ UNCHANGED <<messages, streamIds, usageLog, method, body, session, counts, chat,
                   turnVars>>
    /\ UNCHANGED <<clientConnected, errorVars, buildVars>>

\* ------------------------------------------------------ buildModelMessages
\* part_000 lines 70-132.  A string is the sequence of its characters, a buffer
\* the sequence of its bytes.  A call that can throw gives [threw, value].
Returned(v) == [threw |-> FALSE, value |-> v]
Threw == [threw |-> TRUE, value |-> <<>>]

\* what is behind the urls of the attachments: nothing (the fetch is not ok), a
\* picture, and PDF documents of several text lengths
Urls == {"missing", "photo", "blank.pdf", "short.pdf", "exact.pdf", "long.pdf"}

PdfHeader == <<37, 80, 68, 70>>
PhotoBytes == <<137, 80, 78, 71, 13>>

ContentOf(url) ==
    CASE url = "photo" -> PhotoBytes
      [] url = "blank.pdf" -> PdfHeader \o <<0>>
      [] url = "short.pdf" -> PdfHeader \o <<1>>
      [] url = "exact.pdf" -> PdfHeader \o <<2>>
      [] url = "long.pdf" -> PdfHeader \o <<3>>
      [] OTHER -> <<>>

\* lines 71-75: fetchArrayBuffer throws when the response is not ok
fetchArrayBuffer(url) ==
    IF url = "missing" THEN Threw ELSE Returned(ContentOf(url))

Char(i) == IF i % 3 = 1 THEN "a" ELSE IF i % 3 = 2 THEN "b" ELSE "c"
TextOfLength(n) == [i \in 1..n |-> Char(i)]
ShortText == TextOfLength(5)
ExactText == TextOfLength(PdfTextBudget)
LongText == TextOfLength(PdfTextBudget + 1)

\* pdf-parse (an external module): res.text of a document, nothing for a
\* document without text, a throw for a buffer that is not a PDF
NoText == <<"undefined">>
pdfParse(buffer) ==
    IF Len(buffer) # 5 \/ SubSeq(buffer, 1, 4) # PdfHeader
    THEN Threw
    ELSE Returned(CASE buffer[5] = 1 -> ShortText
                    [] buffer[5] = 2 -> ExactText
                    [] buffer[5] = 3 -> LongText
                    [] OTHER -> NoText)

\* lines 109-114: return res.text || ''
extractTextFromPdf(buffer) ==
    LET res == pdfParse(buffer) IN
    IF res.threw THEN Threw
    ELSE Returned(IF res.value = NoText THEN <<>> ELSE res.value)

\* String.prototype.substring(0, end) for end >= 0
Substring0(text, end) == SubSeq(text, 1, IF end < Len(text) THEN end ELSE Len(text))

\* mutant: the extracted text is embedded whole
TextContent_Whole(text) == text

\* line 118: const textContent = text.substring(0, 12000)
TextContent(text) == Substring0(text, PdfTextBudget)

\* line 119: the literal in front of ${textContent}
SummaryInstruction ==
    <<"P", "l", "e", "a", "s", "e", " ", "s", "u", "m", "m",
      "a", "r", "i", "z", "e", " ", "t", "h", "e", " ", "f",
      "o", "l", "l", "o", "w", "i", "n", "g", " ", "d", "o",
      "c", "u", "m", "e", "n", "t", ":", "\n", "\n">>
SummaryPrompt(text) == SummaryInstruction \o TextContent(text)

\* Buffer.toString('base64'): sextets 0..63, Pad for the '=' padding
Pad == 64
RECURSIVE Base64(_)
Base64(bytes) ==
    CASE Len(bytes) = 0 -> <<>>
      [] Len(bytes) = 1 ->
            <<bytes[1] \div 4, (bytes[1] % 4) * 16, Pad, Pad>>
      [] Len(bytes) = 2 ->
            <<bytes[1] \div 4, (bytes[1] % 4) * 16 + bytes[2] \div 16,
              (bytes[2] % 16) * 4, Pad>>
      [] OTHER ->
            <<bytes[1] \div 4, (bytes[1] % 4) * 16 + bytes[2] \div 16,
              (bytes[2] % 16) * 4 + bytes[3] \div 64, bytes[3] % 64>>
            \o Base64(SubSeq(bytes, 4, Len(bytes)))

\* a media type is its type and subtype: startsWith('image/') reads the type
ImagePng == [type |-> "image", subtype |-> "png"]
ApplicationPdf == [type |-> "application", subtype |-> "pdf"]
TextPlain == [type |-> "text", subtype |-> "plain"]
IsImage(mediaType) == mediaType.type = "image"
IsPdf(mediaType) == mediaType = ApplicationPdf

\* the content blocks of a model message
TextBlock(text) == [type |-> "text", text |-> text]
\* `data:${mediaType};base64,${base64}`
ImageBlock(mediaType, base64) ==
    [type |-> "image_url", image_url |-> [mediaType |-> mediaType, base64 |-> base64]]

\* lines 94-104: an image attachment; the catch logs and pushes nothing
ImagePart(part) ==
    LET arrayBuf == fetchArrayBuffer(part.url) IN
    IF arrayBuf.threw
    THEN Returned(<<>>)
    ELSE Returned(<<ImageBlock(part.mediaType, Base64(arrayBuf.value))>>)

\* mutant: the PDF branch has no try/catch
PdfPart_Uncaught(part) ==
    LET arrayBuf == fetchArrayBuffer(part.url) IN
    IF arrayBuf.threw
    THEN Threw
    ELSE LET text == extractTextFromPdf(arrayBuf.value) IN
         IF text.threw
         THEN Threw
         ELSE Returned(<<TextBlock(SummaryPrompt(text.value))>>)

\* lines 105-123: a PDF attachment; the catch logs and pushes nothing
PdfPart(part) ==
    LET arrayBuf == fetchArrayBuffer(part.url) IN
    IF arrayBuf.threw
    THEN Returned(<<>>)
    ELSE LET text == extractTextFromPdf(arrayBuf.value) IN
         IF text.threw
         THEN Returned(<<>>)
         ELSE Returned(<<TextBlock(SummaryPrompt(text.value))>>)

\* lines 88-124: what one part pushes onto contentParts
PartBlocks(part) ==
    CASE part.type = "text" -> Returned(<<TextBlock(part.text)>>)
      [] part.type = "file" /\ IsImage(part.mediaType) -> ImagePart(part)
      [] part.type = "file" /\ ~IsImage(part.mediaType) /\ IsPdf(part.mediaType) ->
            PdfPart(part)
      [] OTHER -> Returned(<<>>)

\* lines 86-126: the loop over msg.parts
RECURSIVE ContentParts(_)
ContentParts(parts) ==
    IF parts = <<>> THEN Returned(<<>>)
    ELSE LET first == PartBlocks(Head(parts)) IN
         IF first.threw THEN Threw
         ELSE LET rest == ContentParts(Tail(parts)) IN
              IF rest.threw THEN Threw
              ELSE Returned(first.value \o rest.value)

\* line 82: parts.filter(text).map(text).join('')
RECURSIVE JoinTexts(_)
JoinTexts(parts) ==
    IF parts = <<>> THEN <<>>
    ELSE (IF Head(parts).type = "text" THEN Head(parts).text ELSE <<>>)
         \o JoinTexts(Tail(parts))

\* lines 80-128: the model message of one ui message
ModelMessage(msg) ==
    IF msg.role # "user"
    THEN Returned([role |-> msg.role, text |-> JoinTexts(msg.parts), content |-> <<>>])
    ELSE LET contentParts == ContentParts(msg.parts) IN
         IF contentParts.threw THEN Threw
         ELSE Returned([role |-> "user", text |-> <<>>, content |-> contentParts.value])

\* lines 77-132
RECURSIVE buildModelMessages(_)
buildModelMessages(msgs) ==
    IF msgs = <<>> THEN Returned(<<>>)
    ELSE LET first == ModelMessage(Head(msgs)) IN
         IF first.threw THEN Threw
         ELSE LET rest == buildModelMessages(Tail(msgs)) IN
              IF rest.threw THEN Threw
              ELSE Returned(<<first.value>> \o rest.value)

\* the inputs: up to MaxMessages messages with up to MaxParts parts in all
Roles == {"user", "assistant"}
Hi == <<"h", "i">>
TextPart(text) == [type |-> "text", text |-> text, url |-> "", mediaType |-> TextPlain]
FilePart(url, mediaType) ==
    [type |-> "file", text |-> <<>>, url |-> url, mediaType |-> mediaType]
\* an attachment of an unsupported type is never fetched, and an image is
\* whatever bytes the fetch gives: one url each; a PDF attachment over every url
Parts ==
    {TextPart(Hi), FilePart("photo", TextPlain)}
    \cup {FilePart(u, ImagePng) : u \in {"missing", "photo"}}
    \cup {FilePart(u, ApplicationPdf) : u \in Urls}
MessagesWith(n) == {[role |-> ro, parts |-> ps] : ro \in Roles, ps \in [1..n -> Parts]}

RECURSIVE UiMessageSeqs(_, _)
UiMessageSeqs(nMessages, nParts) ==
    IF nMessages = 0 THEN {<<>>}
    ELSE {<<>>} \cup
         UNION {{<<m>> \o rest : m \in MessagesWith(n),
                                 rest \in UiMessageSeqs(nMessages - 1, nParts - n)} :
                n \in 0..nParts}

\* a call of buildModelMessages is about to be made on some input; no request
\* is running
BuildInit ==
    /\ chats = [c \in ChatIds |-> NoChat]
    /\ messages = {}
    /\ streamIds = {}
    /\ usageLog = <<>>
    /\ pc = [r \in Slots |-> "idle"]
    /\ method = [r \in Slots |-> "none"]
    /\ body = [r \in Slots |-> NoBody]
    /\ session = [r \in Slots |-> NoSession]
    /\ messageCount = [r \in Slots |-> 0]
    /\ usageCount = [r \in Slots |-> 0]
    /\ chat = [r \in Slots |-> NoChat]
    /\ usageData = [r \in Slots |-> ZeroUsage]
    /\ consumed = [r \in Slots |-> NotConsumed]
    /\ produced = [r \in Slots |-> 0]
    /\ steps = [r \in Slots |-> 0]
    /\ toolCall = [r \in Slots |-> NoTool]
    /\ activeTools = [r \in Slots |-> {}]
    /\ response = [r \in Slots |-> NoResponse]
    /\ log = [r \in Slots |-> <<>>]
    /\ clientConnected = [r \in Slots |-> TRUE]
    /\ streamError = [r \in Slots |-> NoError]
    /\ errorText = [r \in Slots |-> NoErrorText]
    /\ uiMessages \in UiMessageSeqs(MaxMessages, MaxParts)
    /\ buildResult = NotBuilt

\* await buildModelMessages(uiMessages), line 217
BuildModelMessagesCall ==
    /\ buildResult.state = "pending"
    /\ LET result == buildModelMessages(uiMessages) IN
       buildResult' = IF result.threw
                      THEN [state |-> "thrown", modelMessages |-> <<>>]
                      ELSE [state |-> "returned", modelMessages |-> result.value]
    /\ UNCHANGED <<store, pc, method, body, session, counts, chat, turnVars,
                   response, log, clientConnected, errorVars, uiMessages>>

BuildNext == BuildModelMessagesCall
BuildSpec == BuildInit /\ [][BuildNext]_vars

\* ------------------------------------------------------------ specification
Step(r) ==
    \/ PostParse(r)
    \/ PostAuth(r)
    \/ PostMessageCount(r)
    \/ PostUsageCount(r)
    \/ PostGetChat(r)
    \/ PostGenerateTitle(r)
    \/ PostSaveChat(r)
    \/ PostGetMessages(r)
    \/ PostSaveMessages(r)
    \/ PostCreateStreamId(r)
    \/ PostCreateUIMessageStream(r)
    \/ StreamToolStep(r)
    \/ StreamFinish(r)
    \/ StreamError(r)
    \/ OnFinishSaveMessages(r)
    \/ OnFinishSaveUsageLog(r)
    \/ DeleteParams(r)
    \/ DeleteAuth(r)
    \/ DeleteGetChat(r)
    \/ DeleteChatById(r)

\* requests overlap: any request that has a step to take may take it
Next == \E r \in Reqs : Step(r)

Spec == Init /\ [][Next]_vars

\* requests one after the other: a request runs only while no other is running
Alone(r) == \A q \in Reqs \ {r} : pc[q] \in {"idle", "done"}

SerialNext ==
    \E r \in Reqs :
        \/ Alone(r) /\ PostParse(r)
        \/ Alone(r) /\ PostAuth(r)
        \/ Alone(r) /\ PostMessageCount(r)
        \/ Alone(r) /\ PostUsageCount(r)
        \/ Alone(r) /\ PostGetChat(r)
        \/ Alone(r) /\ PostGenerateTitle(r)
        \/ Alone(r) /\ PostSaveChat(r)
        \/ Alone(r) /\ PostGetMessages(r)
        \/ Alone(r) /\ PostSaveMessages(r)
        \/ Alone(r) /\ PostCreateStreamId(r)
        \/ Alone(r) /\ PostCreateUIMessageStream(r)
        \/ Alone(r) /\ StreamToolStep(r)
        \/ Alone(r) /\ StreamFinish(r)
        \/ Alone(r) /\ StreamError(r)
        \/ Alone(r) /\ OnFinishSaveMessages(r)
        \/ Alone(r) /\ OnFinishSaveUsageLog(r)
        \/ Alone(r) /\ DeleteParams(r)
        \/ Alone(r) /\ DeleteAuth(r)
        \/ Alone(r) /\ DeleteGetChat(r)
        \/ Alone(r) /\ DeleteChatById(r)

SerialSpec == Init /\ [][SerialNext]_vars

\* ------------------------------------------------------- client disconnect
\* mutant: the turn is tied to the request, so a disconnect aborts it
ClientDisconnect_Aborts(r) ==
    /\ pc[r] \in {"streaming", "onFinish", "awaitConsume"}
    /\ clientConnected[r]
    /\ clientConnected' = [clientConnected EXCEPT ![r] = FALSE]
    /\ pc' = [pc EXCEPT ![r] = "done"]
    /\ UNCHANGED <<store, method, body, session, counts, chat, turnVars,
                   response, log, errorVars, buildVars>>

\* The client of a streamed response (lines 383-393) goes away while the turn
\* runs.  POST passes no abort signal to streamText and starts
\* result.consumeStream() itself (line 290), so nothing of the turn reads the
\* connection.
ClientDisconnect(r) ==
    /\ pc[r] \in {"streaming", "onFinish", "awaitConsume"}
    /\ clientConnected[r]
    /\ clientConnected' = [clientConnected EXCEPT ![r] = FALSE]
    /\ UNCHANGED <<store, pc, method, body, session, counts, chat, turnVars,
                   response, log, errorVars, buildVars>>

\* what the runtime keeps running once the stream has started: the drain of
\* the completion stream and the continuations of onFinish
Drain(r) ==
    \/ StreamFinish(r)
    \/ StreamError(r)
    \/ OnFinishSaveMessages(r)
    \/ OnFinishSaveUsageLog(r)

\* requests one after the other, each with a client that may go away
DisconnectNext ==
    \/ SerialNext
    \/ \E r \in Reqs : Alone(r) /\ ClientDisconnect(r)

DisconnectSpec ==
    Init /\ [][DisconnectNext]_vars /\ \A r \in Reqs : WF_vars(Drain(r))

\* ------------------------------------------------- three requests, to the save
\* Three overlapping requests, each followed up to the save of the user
\* message (POST) or to its end (DELETE): every behaviour is the beginning of
\* a behaviour of three whole requests.
RecreateNext ==
    \E r \in Slots :
        \/ PostParse(r)
        \/ PostAuth(r)
        \/ PostMessageCount(r)
        \/ PostUsageCount(r)
        \/ PostGetChat(r)
        \/ PostGenerateTitle(r)
        \/ PostSaveChat(r)
        \/ PostGetMessages(r)
        \/ PostSaveMessages(r)
        \/ DeleteParams(r)
        \/ DeleteAuth(r)
        \/ DeleteGetChat(r)
        \/ DeleteChatById(r)

RecreateSpec == Init /\ [][RecreateNext]_vars

\* ------------------------------------------------------ vocabulary of claims
Has(r, event) == \E i \in 1..Len(log[r]) : log[r][i] = event

StoreWrites ==
    {"saveChat", "saveMessages:user", "createStreamId", "saveMessages:assistant",
     "saveUsageLog", "saveUsageLog:failed", "deleteChatById"}
ModelCalls == {"generateTitleFromUserMessage", "streamText"}

NoWriteNoModelCall(r) ==
    \A i \in 1..Len(log[r]) : log[r][i] \notin StoreWrites \cup ModelCalls

Posts == {r \in Reqs : method[r] = "POST"}
Deletes == {r \in Reqs : method[r] = "DELETE"}

MaxMessagesPerDay(u) == entitlementsByUserType[userTypeOf[u]].maxMessagesPerDay

\* ----------------------------------------------------------------- claims
\* C1 (as claimed): a POST whose user has a message count at or above the
\* ceiling of their user type returns the rate-limit error, invokes no model
\* and writes nothing.
C1_RateLimitAtOrAboveCeiling ==
    \A r \in Posts :
        (session[r] # NoSession /\ messageCount[r] >= MaxMessagesPerDay(session[r]))
        => /\ pc[r] = "done"
           /\ response[r] = ChatSDKErrorResponse("rate_limit:chat")
           /\ NoWriteNoModelCall(r)

\* C2 (as claimed): in every POST the save of the user message precedes every
\* model invocation, the title generation included.
C2_SaveBeforeEveryModelCall ==
    \A r \in Posts : \A i \in 1..Len(log[r]) :
        log[r][i] \in ModelCalls
        => \E j \in 1..(i - 1) : log[r][j] = "saveMessages:user"

\* C2 (amended): in every POST the save of the user message precedes the
\* streaming completion call, and the stored message is there when the call is
\* made; the title generation, made when the chat does not exist yet, comes
\* before the save.
C2_SaveBeforeStreamAfterTitle ==
    \A r \in Posts : \A i \in 1..Len(log[r]) :
        /\ log[r][i] = "streamText"
           => /\ \E j \in 1..(i - 1) : log[r][j] = "saveMessages:user"
              /\ UserMessage(r, body[r].id) \in messages
        /\ log[r][i] = "generateTitleFromUserMessage"
           => \A j \in 1..(i - 1) : log[r][j] # "saveMessages:user"

C2_Witness ==
    \E r \in Posts :
        /\ Has(r, "generateTitleFromUserMessage")
        /\ Has(r, "streamText")

\* C3: once a POST has reached the streaming completion call its user message
\* is in the store, and stays there through the stream, its failure and the
\* finalization.
C3_UserMessageDurable ==
    \A r \in Posts :
        Has(r, "streamText") => UserMessage(r, body[r].id) \in messages

C3_Witness ==
    \E r \in Posts :
        /\ pc[r] = "done"
        /\ Has(r, "onError")
        /\ UserMessage(r, body[r].id) \in messages

\* C4: a POST whose body does not parse returns the bad-request error and has
\* made no call at all: no session lookup, no store read or write, no model call.
C4_BadBodyNoEffect ==
    \A r \in Posts :
        body[r] = NoBody
        => /\ pc[r] = "done"
           /\ response[r] = ChatSDKErrorResponse("bad_request:api")
           /\ log[r] = <<>>

C4_Witness ==
    \E r \in Posts : /\ body[r] = NoBody
                     /\ response[r] = ChatSDKErrorResponse("bad_request:api")

C6_AlwaysAResponse ==
    \A r \in Posts :
        (pc[r] = "done" /\ ~Has(r, "streamText"))
        => response[r].kind \in {"ChatSDKError", "json"}

\* C7: with the reasoning model the active tool set of the turn is empty and
\* no step of the stream invokes a tool.
C7_ReasoningNoTools ==
    \A r \in Posts :
        body[r].selectedChatModel = "chat-model-reasoning"
        => /\ activeTools[r] = {}
           /\ toolCall[r] = NoTool
           /\ steps[r] = 0

C7_Witness ==
    \E r \in Posts :
        /\ body[r].selectedChatModel = "chat-model-reasoning"
        /\ pc[r] = "onFinish"
        /\ produced[r] = 1
        /\ \E q \in Posts : toolCall[q] # NoTool

\* C8: when the consumption of the stream gives no usable usage summary
\* (consumePromise is null or rejects, or the result has no usage object under
\* any of the three paths), the usage row of the turn is written with all three
\* counts 0 unless that write itself fails; and whatever the consumption gave,
\* the messages the stream produced were saved before it was read.
Unusable(res) ==
    \/ res.state \in {"null", "rejected"}
    \/ res.state = "resolved" /\ ~ExtractUsage(res).present

TurnRows(r) == {i \in 1..Len(usageLog) : usageLog[i].turn = r}

C8_UnusableUsageZeroRow ==
    \A r \in Posts :
        /\ Unusable(consumed[r])
           => /\ usageData[r] = ZeroUsage
              /\ \/ Has(r, "saveUsageLog:failed")
                 \/ /\ Cardinality(TurnRows(r)) = 1
                    /\ \A i \in TurnRows(r) :
                         usageLog[i] = UsageRow(session[r], body[r].selectedChatModel,
                                                ZeroUsage, r)
        /\ consumed[r] # NotConsumed
           => \A i \in 1..produced[r] : AssistantMessage(r, body[r].id) \in messages

C8_Witness ==
    \E r \in Posts :
        /\ consumed[r].state = "rejected"
        /\ produced[r] = 1
        /\ Cardinality(TurnRows(r)) = 1
        /\ \E q \in Posts : /\ consumed[q].state = "resolved"
                            /\ Unusable(consumed[q])
                            /\ Cardinality(TurnRows(q)) = 1

\* C9: a POST whose chat lookup finds a chat owned by another user returns the
\* forbidden error, writes nothing and invokes no model.
C9_ForeignChatForbidden ==
    \A r \in Posts :
        (chat[r] # NoChat /\ chat[r].userId # session[r])
        => /\ pc[r] = "done"
           /\ response[r] = ChatSDKErrorResponse("forbidden:chat")
           /\ NoWriteNoModelCall(r)

C9_Witness ==
    \E r \in Posts :
        /\ chat[r] # NoChat
        /\ chat[r].userId # session[r]
        /\ response[r] = ChatSDKErrorResponse("forbidden:chat")

\* C10: a POST that passed the message-count check and read a usage count at
\* or above the daily request limit returns status 429 with a JSON body that
\* carries a message, writes nothing and invokes no model.
C10_DailyLimit429 ==
    \A r \in Posts :
        (Has(r, "getUsageCountByUserId") /\ usageCount[r] >= DailyRequestLimit)
        => /\ pc[r] = "done"
           /\ response[r].status = 429
           /\ response[r] = QuotaExceededResponse
           /\ NoWriteNoModelCall(r)

C10_Witness ==
    \E r \in Posts :
        /\ usageCount[r] >= DailyRequestLimit
        /\ response[r] = QuotaExceededResponse
        /\ messageCount[r] < MaxMessagesPerDay(session[r])
\* ---------------------------------------------- buildModelMessages claims
IsPdfPart(part) == part.type = "file" /\ part.mediaType = ApplicationPdf
IsImagePart(part) == part.type = "file" /\ part.mediaType.type = "image"
Fetches(part) == part.url # "missing"
\* the text pdf-parse reads from the attachment, when it reads one
Extracts(part) == Fetches(part) /\ ~pdfParse(ContentOf(part.url)).threw
ExtractedText(part) ==
    LET text == pdfParse(ContentOf(part.url)).value IN
    IF text = NoText THEN <<>> ELSE text

\* a part that is text, or an attachment of a supported type that was read
Survives(part) ==
    \/ part.type = "text"
    \/ IsImagePart(part) /\ Fetches(part)
    \/ IsPdfPart(part) /\ Extracts(part)

\* the position in the content of the block of part j
BlockIndex(parts, j) == Cardinality({k \in 1..j : Survives(parts[k])})

StartsWith(text, prefix) ==
    /\ Len(text) >= Len(prefix)
    /\ SubSeq(text, 1, Len(prefix)) = prefix

Built == buildResult.state = "returned"
UserMessages == {i \in 1..Len(uiMessages) : uiMessages[i].role = "user"}

\* C11: the text block of a PDF attachment is the summarization instruction
\* followed by the first min(n, 12000) characters of the extracted text of
\* length n, and nothing else.
C11_PdfTextPrefix ==
    Built =>
      \A i \in UserMessages :
        LET parts == uiMessages[i].parts IN
        \A j \in 1..Len(parts) :
          IsPdfPart(parts[j]) /\ Extracts(parts[j]) =>
            LET text == ExtractedText(parts[j])
                kept == IF Len(text) < PdfTextBudget THEN Len(text) ELSE PdfTextBudget
                block == buildResult.modelMessages[i].content[BlockIndex(parts, j)]
            IN  /\ block.type = "text"
                /\ Len(block.text) = Len(SummaryInstruction) + kept
                /\ StartsWith(block.text, SummaryInstruction)
                /\ SubSeq(block.text, Len(SummaryInstruction) + 1, Len(block.text))
                      = SubSeq(text, 1, kept)

\* a PDF longer than the budget was embedded, cut to the budget
C11_Witness ==
    /\ Built
    /\ \E i \in UserMessages :
         LET parts == uiMessages[i].parts IN
         \E j \in 1..Len(parts) :
           /\ parts[j] = FilePart("long.pdf", ApplicationPdf)
           /\ Len(ExtractedText(parts[j])) > PdfTextBudget
           /\ Len(buildResult.modelMessages[i].content[BlockIndex(parts, j)].text)
                = Len(SummaryInstruction) + PdfTextBudget

\* the block a surviving part leaves in the content
BlockFrom(block, part) ==
    CASE part.type = "text" -> block = TextBlock(part.text)
      [] IsImagePart(part) ->
            /\ block.type = "image_url"
            /\ block.image_url.mediaType = part.mediaType
            /\ block.image_url.base64 = Base64(ContentOf(part.url))
      [] OTHER ->
            /\ block.type = "text"
            /\ StartsWith(block.text, SummaryInstruction)

\* C18: buildModelMessages always returns, with one model message per input
\* message in the same order (same roles); the content of a user message has
\* one block per part that is text or a supported attachment that was read, in
\* the order of the parts, and nothing for a failed attachment or for an
\* attachment of another media type.
C18_AttachmentsNeverAbort ==
    /\ buildResult.state # "thrown"
    /\ Built =>
         /\ Len(buildResult.modelMessages) = Len(uiMessages)
         /\ \A i \in 1..Len(uiMessages) :
              buildResult.modelMessages[i].role = uiMessages[i].role
         /\ \A i \in UserMessages :
              LET kept == SelectSeq(uiMessages[i].parts, Survives)
                  content == buildResult.modelMessages[i].content
              IN  /\ Len(content) = Len(kept)
                  /\ \A j \in 1..Len(kept) : BlockFrom(content[j], kept[j])

\* a user message of three parts whose middle part is an attachment that failed
\* (its fetch or its extraction): the two other parts, which differ, are its
\* content
C18_Witness ==
    /\ Built
    /\ \E i \in UserMessages :
         LET parts == uiMessages[i].parts IN
         /\ Len(parts) = 3
         /\ Survives(parts[1]) /\ Survives(parts[3]) /\ parts[1] # parts[3]
         /\ parts[2] \in {FilePart("missing", ApplicationPdf),
                          FilePart("photo", ApplicationPdf),
                          FilePart("missing", ImagePng)}
         /\ Len(buildResult.modelMessages[i].content) = 2

\* C12: the step of POST that queries the usage count ends in one of two ways,
\* whether the query worked or failed: the count it holds is the one the query
\* gave or zero, and either POST goes on to the chat lookup without a response,
\* or it answers 429 because the count it holds is at the daily limit.  The
\* failure of the query is not an outcome of its own.
C12_UsageQueryFailureNotFatal ==
    [][\A r \in Reqs :
         pc[r] = "usageCount" /\ pc'[r] # "usageCount" =>
           /\ usageCount'[r] \in {0, UsageCountByUserId(session[r])}
           /\ \/ /\ pc'[r] = "getChat"
                 /\ response'[r] = NoResponse
                 /\ usageCount'[r] < DailyRequestLimit
              \/ /\ pc'[r] = "done"
                 /\ response'[r] = QuotaExceededResponse
                 /\ usageCount'[r] >= DailyRequestLimit]_vars

\* a user whose usage rows from before the request are at the daily limit is
\* past the check with a count of zero (the query failed) and got the whole turn
C12_Witness ==
    \E r \in Posts :
        /\ Cardinality({i \in 1..Len(usageLog) :
                           /\ usageLog[i].userId = session[r]
                           /\ usageLog[i].turn = 0}) >= DailyRequestLimit
        /\ usageCount[r] = 0
        /\ Has(r, "getChatById")
        /\ Has(r, "saveUsageLog")
        /\ response[r] = StreamResponse

\* the stream of the turn ran to its end and handed its message to onFinish
StreamCompleted(r) == produced[r] = 1

\* C13: a usage row of a turn exists only once the stream has finished and
\* onFinish has saved the messages; a turn has at most one row; and a turn
\* whose stream completed and whose handler is through has exactly one row
\* unless the usage write itself failed.
C13_OneUsageRowPerCompletedTurn ==
    \A r \in Posts :
        /\ TurnRows(r) # {} =>
              /\ pc[r] = "done"
              /\ Has(r, "saveMessages:assistant")
        /\ Cardinality(TurnRows(r)) <= 1
        /\ StreamCompleted(r) /\ pc[r] = "done" =>
              \/ Cardinality(TurnRows(r)) = 1
              \/ Has(r, "saveUsageLog:failed")

\* the calls of one kind a request has made
Calls(r, event) == {i \in 1..Len(log[r]) : log[r][i] = event}
UsageWrites(r) == Calls(r, "saveUsageLog") \cup Calls(r, "saveUsageLog:failed")

\* C14: while the stream of a turn is producing, no assistant message of the
\* turn is in the store and none has been sent to it; the messages of the turn
\* are saved by at most one saveMessages call, made after the stream has ended;
\* and the usage write comes after that call, and only when it saved.
C14_AssistantSavedOnceAfterStream ==
    \A r \in Posts :
        /\ pc[r] = "streaming" =>
              /\ Calls(r, "saveMessages:assistant") = {}
              /\ \A m \in messages : ~(m.id = r /\ m.role = "assistant")
        /\ Cardinality(Calls(r, "saveMessages:assistant")) <= 1
        /\ \A m \in messages : m.id = r /\ m.role = "assistant" =>
              /\ Calls(r, "saveMessages:assistant") # {}
              /\ StreamCompleted(r)
        /\ \A j \in UsageWrites(r) :
              /\ \E i \in Calls(r, "saveMessages:assistant") : i < j
              /\ StreamCompleted(r) => AssistantMessage(r, body[r].id) \in messages

\* a turn is through: its assistant message is in the store, saved by the one
\* call after the stream, and its usage row was written after that
C14_Witness ==
    \E r \in Posts :
        /\ pc[r] = "done"
        /\ AssistantMessage(r, body[r].id) \in messages
        /\ Cardinality(Calls(r, "saveMessages:assistant")) = 1
        /\ Calls(r, "saveUsageLog") # {}
        /\ Cardinality(TurnRows(r)) = 1

\* C15: a turn whose client has gone away (which happens only once the turn
\* streams) still ends with its finalization run: the stream was consumed to
\* its end, onFinish made its saveMessages call, and the usage write followed
\* the saved message of a completed stream.
C15_DisconnectDoesNotStopTurn ==
    \A r \in Reqs :
        ~clientConnected[r] ~>
            /\ pc[r] = "done"
            /\ Calls(r, "saveMessages:assistant") # {}
            /\ AssistantMessage(r, body[r].id) \in messages => UsageWrites(r) # {}

\* the client left while the turn was running, and the turn has its assistant
\* message and its usage row
C15_Witness ==
    \E r \in Posts :
        /\ ~clientConnected[r]
        /\ pc[r] = "done"
        /\ AssistantMessage(r, body[r].id) \in messages
        /\ Cardinality(TurnRows(r)) = 1

\* C16: a failed usage write is the last thing a turn does: the handler is
\* through, no error event follows the failed write, the response is the
\* stream that was returned, no row was written, and the user message of the
\* turn and the assistant message of a completed stream are in the store.
C16_UsageWriteFailureSwallowed ==
    \A r \in Posts :
        Has(r, "saveUsageLog:failed") =>
            /\ pc[r] = "done"
            /\ log[r][Len(log[r])] = "saveUsageLog:failed"
            /\ response[r] = StreamResponse
            /\ TurnRows(r) = {}
            /\ UserMessage(r, body[r].id) \in messages
            /\ StreamCompleted(r) => AssistantMessage(r, body[r].id) \in messages

\* the usage write of a completed turn failed
C16_Witness ==
    \E r \in Posts :
        /\ Has(r, "saveUsageLog:failed")
        /\ StreamCompleted(r)
        /\ ~Has(r, "onError")
        /\ AssistantMessage(r, body[r].id) \in messages

\* C17: while a turn of a model other than the reasoning variant streams, the
\* tools the model may invoke are all the tools handed to streamText: document
\* creation, document update, suggestions, weather and web search.
C17_AllToolsActive ==
    \A r \in Posts :
        pc[r] = "streaming" /\ body[r].selectedChatModel # "chat-model-reasoning" =>
            activeTools[r] = tools

\* the POST that created the record of a chat (its title is that POST's)
CreatedBy(c, r) == chats[c] # NoChat /\ chats[c].title = r

\* C19: the record of a chat that a request created is the one a POST saved
\* after it had found no chat with that id, and its owner is that POST's user;
\* a record appears only by such a POST's saveChat, and a record that is there
\* is never changed, only removed, and removed only by a DELETE.
C19_ChatCreatedOnceOwnerFixed ==
    /\ [](\A c \in ChatIds : \A r \in Reqs :
             CreatedBy(c, r) =>
                /\ r \in Posts
                /\ body[r].id = c
                /\ chat[r] = NoChat
                /\ Has(r, "saveChat")
                /\ chats[c].userId = session[r])
    /\ [][\A c \in ChatIds :
            chats'[c] # chats[c] =>
               IF chats[c] = NoChat
               THEN \E r \in Posts :
                       /\ pc[r] = "saveChat" /\ pc'[r] = "getMessages"
                       /\ body[r].id = c
                       /\ chat[r] = NoChat
                       /\ chats'[c].userId = session[r]
               ELSE /\ chats'[c] = NoChat
                    /\ \E r \in Deletes :
                          pc[r] = "deleteChatById" /\ pc'[r] = "done"]_vars

\* two overlapping POSTs of different users for the same new id both found no
\* chat and both called saveChat: one owns the record, the other got the
\* database error
C19_Witness ==
    \E r, q \in Posts :
        /\ r # q
        /\ body[r].id = body[q].id
        /\ session[r] # session[q]
        /\ chat[r] = NoChat /\ chat[q] = NoChat
        /\ Has(r, "saveChat") /\ Has(q, "saveChat")
        /\ CreatedBy(body[r].id, r)
        /\ chats[body[r].id].userId = session[r]
        /\ response[q] = CatchResponse("ChatSDKError")

\* C20: the counts are read once, before the chat lookup, and nothing is
\* checked again where the turn writes: a POST that is past the two checks is
\* never answered with the rate-limit or the quota response, whatever the
\* store holds by then.
C20_AdmittedOnTheCountsRead ==
    \A r \in Posts :
        Has(r, "getChatById") =>
            /\ response[r] # ChatSDKErrorResponse("rate_limit:chat")
            /\ response[r] # QuotaExceededResponse

\* two overlapping POSTs of one user read the same counts, both below their
\* ceilings, before either had saved; both ran their turn, and the user's
\* message count and usage count are above the ceilings
C20_Witness ==
    \E r, q \in Posts :
        /\ r # q
        /\ session[r] \in Users
        /\ session[r] = session[q]
        /\ messageCount[r] = messageCount[q]
        /\ messageCount[r] < MaxMessagesPerDay(session[r])
        /\ usageCount[r] = usageCount[q]
        /\ usageCount[r] < DailyRequestLimit
        /\ response[r] = StreamResponse /\ response[q] = StreamResponse
        /\ Cardinality(TurnRows(r)) = 1 /\ Cardinality(TurnRows(q)) = 1
        /\ MessageCountByUserId(session[r]) = messageCount[r] + 2
        /\ MessageCountByUserId(session[r]) > MaxMessagesPerDay(session[r])
        /\ UsageCountByUserId(session[r]) > DailyRequestLimit

\* the turns in whose stream an error was raised
Errored == {r \in Posts : streamError[r] # NoError}

\* C21: the error text a stream carries is there only for a turn in whose
\* stream an error was raised, it is the one fixed sentence whatever the error
\* was, so the texts of any two such turns are equal, and no piece of it is
\* the message of the error.
C21_ErrorTextGeneric ==
    /\ \A r \in Reqs \ Errored : errorText[r] = NoErrorText
    /\ \A r \in Errored :
          /\ errorText[r] = <<"Oops, an error occurred!">>
          /\ \A i \in 1..Len(errorText[r]) : errorText[r][i] \notin InternalErrors
    /\ \A r, q \in Errored : errorText[r] = errorText[q]

\* two turns in whose streams different errors were raised carried the same
\* text to their clients
C21_Witness ==
    \E r, q \in Errored :
        /\ streamError[r] # streamError[q]
        /\ Has(r, "onError") /\ Has(q, "onError")
        /\ errorText[r] # NoErrorText
        /\ errorText[r] = errorText[q]

\* C22: whenever a POST saves its user message under a chat id, the chat
\* record of that id is there and its owner is the user of that POST.
C22_MessageSavedUnderOwnChat ==
    [][\A r \in {q \in Slots : method[q] = "POST"} :
         UserMessage(r, body[r].id) \in messages' \ messages =>
            /\ chats[body[r].id] # NoChat
            /\ chats[body[r].id].userId = session[r]]_vars

====
